---- MODULE Spec2Model ----
(***************************************************************************)
(* UserKNN item recommendation (caserec/recommenders/item_recommendation/  *)
(* userknn.py).  The model follows compute(): the train set has been read, *)
(* init_model() builds the rating matrix, the user-user similarity matrix  *)
(* and the item -> raters index and resolves k_neighbors; predict() visits *)
(* the users in index order and appends each user's sorted, truncated list *)
(* to the ranking; write_ranking() hands the ranking off.                  *)
(*                                                                         *)
(* Similarities are real numbers in the program.  Here they are integers:  *)
(* a similarity s is represented by floor(s * SimUnit).                    *)
(* Python lists that the code indexes (users, items, matrix rows) are      *)
(* functions on 0..n-1; lists that are only built, sorted and sliced are   *)
(* sequences, and PySlice translates the slice positions.                  *)
(***************************************************************************)
EXTENDS Integers, Sequences, FiniteSets, TLC

VARIABLES users, items, train_set, as_similar_first, k_neighbors, rank_length,
          matrix, su_matrix, users_id_viewed_item, ranking, pc, u_id

vars == <<users, items, train_set, as_similar_first, k_neighbors, rank_length,
          matrix, su_matrix, users_id_viewed_item, ranking, pc, u_id>>

(***************************************************************************)
(* Bounds of the model.                                                    *)
(***************************************************************************)
NumUsers == 3
NumItems == 3
MaxFeedback == 3
MaxK == 3
MaxRank == 2

\* The representation of similarity 1.0 (the self-similarity on the diagonal).
SimUnit == 100

(***************************************************************************)
(* Helpers: Python builtins used by the code.                              *)
(***************************************************************************)
Min(a, b) == IF a < b THEN a ELSE b
Max(a, b) == IF a > b THEN a ELSE b

\* len() of a 0-based list
PyLen(l) == Cardinality(DOMAIN l)

\* dict.get(key, default)
Get(d, key, default) == IF key \in DOMAIN d THEN d[key] ELSE default

\* a slice position as Python normalises it: negative counts from the end
SliceIndex(i, n) == IF i < 0 THEN Max(n + i, 0) ELSE Min(i, n)

\* s[lo:hi] of a list held as a sequence
PySlice(s, lo, hi) ==
    SubSeq(s, SliceIndex(lo, Len(s)) + 1, SliceIndex(hi, Len(s)))

\* sum() of a list of numbers
RECURSIVE sum(_)
sum(s) == IF s = <<>> THEN 0 ELSE Head(s) + sum(Tail(s))

\* a variant of InsertStable that puts an element before its equals
RECURSIVE InsertBeforeEquals(_, _)
InsertBeforeEquals(s, x) ==
    IF s = <<>> THEN <<x>>
    ELSE IF x[1] <= Head(s)[1] THEN <<x>> \o s
    ELSE <<Head(s)>> \o InsertBeforeEquals(Tail(s), x)

\* sorted(): stable, ascending by the first component of each pair
RECURSIVE InsertStable(_, _)
InsertStable(s, x) ==
    IF s = <<>> THEN <<x>>
    ELSE IF x[1] < Head(s)[1] THEN <<x>> \o s
    ELSE <<Head(s)>> \o InsertStable(Tail(s), x)

RECURSIVE sorted(_)
sorted(s) ==
    IF s = <<>> THEN <<>>
    ELSE InsertStable(sorted(SubSeq(s, 1, Len(s) - 1)), s[Len(s)])

\* sorted(l, key=lambda x: -key(x)): pairs <<-key, x>> sorted, keys dropped
SortedByNegKey(pairs) ==
    LET s == sorted(pairs)
    IN  [p \in 1..Len(s) |-> s[p][2]]

\* int(sqrt(n)) by bisection on lo..hi, lo*lo <= n < (hi+1)*(hi+1)
RECURSIVE ISqrtIn(_, _, _)
ISqrtIn(n, lo, hi) ==
    IF lo >= hi THEN lo
    ELSE LET mid == (lo + hi + 1) \div 2
         IN  IF mid * mid <= n THEN ISqrtIn(n, mid, hi) ELSE ISqrtIn(n, lo, mid - 1)

ISqrt(n) == ISqrtIn(n, 0, n)

\* the ascending list of the members of a set of integers
RECURSIVE AscList(_)
AscList(S) ==
    IF S = {} THEN <<>>
    ELSE LET m == CHOOSE x \in S : \A y \in S : x <= y
         IN  <<m>> \o AscList(S \ {m})

(***************************************************************************)
(* The data read before init_model(): users, items and the train set.      *)
(***************************************************************************)
UserKey(u) == 100 + u
ItemKey(i) == 200 + i

\* a data set: its dimensions and the (user index, item index) pairs of the
\* train file, each with a nonzero feedback value
Fixture ==
    [nu |-> 3, ni |-> 3,
     obs |-> {<<0, 0>>, <<0, 1>>, <<1, 0>>, <<1, 2>>, <<2, 1>>, <<2, 2>>}]

\* A=(w), B=(w,x,y), C=(z), D=(y,z): A's candidates x and y tie at a positive
\* score above z; C's candidate y has two raters, B and D, that are not
\* equally similar to C, and it scores above C's candidates w and x
Graded ==
    [nu |-> 4, ni |-> 4,
     obs |-> {<<0, 0>>, <<1, 0>>, <<1, 1>>, <<1, 2>>, <<2, 3>>, <<3, 2>>, <<3, 3>>}]

\* every train set of at most MaxFeedback observations over NumUsers users and
\* NumItems items, and the two scenarios
DataSets ==
    {[nu |-> NumUsers, ni |-> NumItems, obs |-> S] :
        S \in {T \in SUBSET ((0..NumUsers - 1) \X (0..NumItems - 1)) :
                  Cardinality(T) <= MaxFeedback}}
    \cup {Fixture, Graded}

\* train_set['feedback'] and train_set['users_viewed_item'] of a data set
ReadTrain(ds) ==
    LET us == {o[1] : o \in ds.obs}
        is == {o[2] : o \in ds.obs}
    IN  [feedback |->
            [uk \in {UserKey(u) : u \in us} |->
                {ItemKey(o[2]) : o \in {p \in ds.obs : UserKey(p[1]) = uk}}],
         users_viewed_item |->
            [ik \in {ItemKey(i) : i \in is} |->
                LET raters == AscList({o[1] : o \in {p \in ds.obs : ItemKey(p[2]) = ik}})
                IN  [p \in 1..Len(raters) |-> UserKey(raters[p])]]]

\* self.user_to_user_id
user_to_user_id(uk) == CHOOSE u \in DOMAIN users : users[u] = uk

\* create_matrix(): the dense |U| x |I| matrix, 0 = no recorded interaction
create_matrix ==
    [u \in DOMAIN users |->
        [i \in DOMAIN items |->
            IF items[i] \in Get(train_set.feedback, users[u], {}) THEN 1 ELSE 0]]

\* compute_similarity(transpose=False) with the default metric, cosine
compute_similarity(m) ==
    LET norm2(a) == Cardinality({i \in DOMAIN m[a] : m[a][i] # 0})
        dot(a, b) == Cardinality({i \in DOMAIN m[a] : m[a][i] # 0 /\ m[b][i] # 0})
    IN  [a \in DOMAIN m |->
            [b \in DOMAIN m |->
                IF a = b THEN SimUnit
                ELSE IF norm2(a) = 0 \/ norm2(b) = 0 THEN 0
                ELSE ISqrt((SimUnit * SimUnit * dot(a, b) * dot(a, b))
                              \div (norm2(a) * norm2(b)))]]

(***************************************************************************)
(* UserKNN.__init__ and the state after the files are read.                *)
(***************************************************************************)
\* k_neighbors: <<>> is None, <<k>> is the integer k.  __init__ stores what it
\* is given (line 78); nothing rejects a negative value.
KNeighborsArgs == {<<>>} \cup {<<k>> : k \in -1..MaxK}

\* rank_length goes to BaseItemRecommendation.__init__
RankLengthArgs == 1..MaxRank

Init ==
    \E ds \in DataSets, k \in KNeighborsArgs, r \in RankLengthArgs, asf \in BOOLEAN :
        /\ users = [u \in 0..ds.nu - 1 |-> UserKey(u)]
        /\ items = [i \in 0..ds.ni - 1 |-> ItemKey(i)]
        /\ train_set = ReadTrain(ds)
        /\ as_similar_first = asf
        /\ k_neighbors = k
        /\ rank_length = r
        /\ matrix = <<>>
        /\ su_matrix = <<>>
        /\ users_id_viewed_item = <<>>
        /\ ranking = <<>>
        /\ pc = "new"
        /\ u_id = 0

(***************************************************************************)
(* init_model()                                                            *)
(***************************************************************************)
\* lines 95-96
ResolveK(k, n) == IF k = <<>> THEN <<ISqrt(n)>> ELSE k

\* lines 98-100: only items with at least one rater get a key
BuildUsersIdViewedItem ==
    [i \in {j \in DOMAIN items : Len(Get(train_set.users_viewed_item, items[j], <<>>)) > 0} |->
        LET l == train_set.users_viewed_item[items[i]]
        IN  [p \in 1..Len(l) |-> user_to_user_id(l[p])]]

InitModel ==
    /\ pc = "new"
    /\ matrix' = create_matrix
    /\ su_matrix' = compute_similarity(matrix')
    /\ k_neighbors' = ResolveK(k_neighbors, PyLen(users))
    /\ users_id_viewed_item' = BuildUsersIdViewedItem
    /\ pc' = "predict"
    /\ u_id' = 0
    /\ UNCHANGED <<users, items, train_set, as_similar_first, rank_length, ranking>>

(***************************************************************************)
(* predict_scores / predict_similar_first_scores                           *)
(***************************************************************************)
K == k_neighbors[1]

\* a variant of flatnonzero_eq0 that selects the rated items instead
flatnonzero_ne0(row) == AscList({i \in DOMAIN row : row[i] # 0})

\* line 110: list(np.flatnonzero(self.matrix[u_id] == 0))
flatnonzero_eq0(row) == AscList({i \in DOMAIN row : row[i] = 0})

\* a variant of ScoreOfItem that sorts the similarities in ascending order
ScoreOfItemAscending(user_id, item) ==
    LET raters == Get(users_id_viewed_item, item, <<>>)
        sim_sum == [p \in 1..Len(raters) |-> su_matrix[user_id][raters[p]]]
        asc == SortedByNegKey([p \in 1..Len(sim_sum) |-> <<sim_sum[p], sim_sum[p]>>])
    IN  sum(PySlice(asc, 0, K))

\* a variant of ScoreOfItem that sums one value too many
ScoreOfItemOffByOne(user_id, item) ==
    LET raters == Get(users_id_viewed_item, item, <<>>)
        sim_sum == [p \in 1..Len(raters) |-> su_matrix[user_id][raters[p]]]
        desc == SortedByNegKey([p \in 1..Len(sim_sum) |-> <<-sim_sum[p], sim_sum[p]>>])
    IN  sum(PySlice(desc, 0, K + 1))

\* lines 131-136: the score of one item under predict_scores
ScoreOfItem(user_id, item) ==
    LET raters == Get(users_id_viewed_item, item, <<>>)
        sim_sum == [p \in 1..Len(raters) |-> su_matrix[user_id][raters[p]]]
        desc == SortedByNegKey([p \in 1..Len(sim_sum) |-> <<-sim_sum[p], sim_sum[p]>>])
    IN  sum(PySlice(desc, 0, K))

\* a variant of SortAndCut that keeps one entry too many
SortAndCutLong(predictions) ==
    PySlice(SortedByNegKey([p \in 1..Len(predictions) |->
                               <<-predictions[p][3], predictions[p]>>]),
            0, rank_length + 1)

\* lines 138 and 164: sorted(predictions, key=lambda x: -x[2])[:self.rank_length]
SortAndCut(predictions) ==
    PySlice(SortedByNegKey([p \in 1..Len(predictions) |->
                               <<-predictions[p][3], predictions[p]>>]),
            0, rank_length)

predict_scores(user, user_id, unpredicted_items) ==
    SortAndCut([p \in 1..Len(unpredicted_items) |->
                   <<user, items[unpredicted_items[p]],
                     ScoreOfItem(user_id, unpredicted_items[p])>>])

\* line 151: the user indices sorted by descending similarity to user_id
Neighbors(user_id) ==
    SortedByNegKey([p \in 1..PyLen(su_matrix[user_id]) |->
                       <<-su_matrix[user_id][p - 1], p - 1>>])

\* a variant of NeighborSlice that keeps position 0 and one position more
NeighborSliceWide(user_id) == PySlice(Neighbors(user_id), 0, K + 1)

\* neighbors[1:self.k_neighbors]
NeighborSlice(user_id) == PySlice(Neighbors(user_id), 1, K)

\* lines 155-160: the score of one item under predict_similar_first_scores
SimilarFirstScoreOfItem(user_id, item) ==
    LET raters == Get(users_id_viewed_item, item, <<>>)
        nb == NeighborSlice(user_id)
        common_users ==
            AscList({raters[p] : p \in 1..Len(raters)} \cap {nb[p] : p \in 1..Len(nb)})
    IN  sum([p \in 1..Len(common_users) |-> su_matrix[user_id][common_users[p]]])

predict_similar_first_scores(user, user_id, unpredicted_items) ==
    SortAndCut([p \in 1..Len(unpredicted_items) |->
                   <<user, items[unpredicted_items[p]],
                     SimilarFirstScoreOfItem(user_id, unpredicted_items[p])>>])

(***************************************************************************)
(* predict(): one iteration of the loop over the users (lines 108-118)     *)
(***************************************************************************)
\* a variant of HasFeedback that never skips a user
HasFeedbackAlways(user) == TRUE

\* line 109
HasFeedback(user) == Cardinality(Get(train_set.feedback, user, {})) # 0

\* a variant of Extend that puts the new entries in front
ExtendInFront(r, new) == new \o r

\* self.ranking += ...
Extend(r, new) == r \o new

PredictFrame ==
    UNCHANGED <<users, items, train_set, as_similar_first, k_neighbors, rank_length,
                matrix, su_matrix, users_id_viewed_item, pc>>

PredictSimilarFirst ==
    /\ pc = "predict"
    /\ u_id < PyLen(users)
    /\ HasFeedback(users[u_id])
    /\ as_similar_first
    /\ ranking' = Extend(ranking,
                         predict_similar_first_scores(users[u_id], u_id,
                                                      flatnonzero_eq0(matrix[u_id])))
    /\ u_id' = u_id + 1
    /\ PredictFrame

PredictScores ==
    /\ pc = "predict"
    /\ u_id < PyLen(users)
    /\ HasFeedback(users[u_id])
    /\ ~as_similar_first
    /\ ranking' = Extend(ranking,
                         predict_scores(users[u_id], u_id, flatnonzero_eq0(matrix[u_id])))
    /\ u_id' = u_id + 1
    /\ PredictFrame

ColdStartUser ==
    /\ pc = "predict"
    /\ u_id < PyLen(users)
    /\ ~HasFeedback(users[u_id])
    /\ u_id' = u_id + 1
    /\ UNCHANGED ranking
    /\ PredictFrame

\* compute(): predict() has returned, write_ranking() receives the ranking
WriteRanking ==
    /\ pc = "predict"
    /\ u_id = PyLen(users)
    /\ pc' = "done"
    /\ UNCHANGED <<users, items, train_set, as_similar_first, k_neighbors, rank_length,
                   matrix, su_matrix, users_id_viewed_item, ranking, u_id>>

Next ==
    \/ InitModel
    \/ PredictSimilarFirst
    \/ PredictScores
    \/ ColdStartUser
    \/ WriteRanking

Spec == Init /\ [][Next]_vars

TypeOK ==
    /\ pc \in {"new", "predict", "done"}
    /\ u_id \in 0..PyLen(users)
    /\ rank_length \in RankLengthArgs
    /\ Len(k_neighbors) <= 1
    /\ pc # "new" => Len(k_neighbors) = 1

(***************************************************************************)
(* Vocabulary of the properties, read off the state alone.                 *)
(***************************************************************************)
Loaded == pc # "new"

UserIds == DOMAIN users
ItemIds == DOMAIN items

\* the user and item index of a ranking entry (user key, item key, score)
EntryUser(e) == CHOOSE u \in UserIds : users[u] = e[1]
EntryItem(e) == CHOOSE i \in ItemIds : items[i] = e[2]

\* the positions of the ranking that belong to user u
EntriesOf(u) == {p \in 1..Len(ranking) : ranking[p][1] = users[u]}

\* candidates(u): the items with M[u][i] == 0
Candidates(u) == {i \in ItemIds : matrix[u][i] = 0}

\* raters(i): the users with M[v][i] != 0
RatersOf(i) == {v \in UserIds : matrix[v][i] # 0}

\* the users whose train feedback is not empty
Trained(u) == \E i \in ItemIds : matrix[u][i] # 0

\* the users predict() has already scored
Scored(u) == Trained(u) /\ (pc = "done" \/ (pc = "predict" /\ u < u_id))

\* the sum of SU[u][v] over a set of users
RECURSIVE SimSumOver(_, _)
SimSumOver(u, S) ==
    IF S = {} THEN 0
    ELSE LET v == CHOOSE x \in S : TRUE
         IN  su_matrix[u][v] + SimSumOver(u, S \ {v})

\* the score the selected strategy gives item i for user u
StrategyScore(u, i) ==
    IF as_similar_first THEN SimilarFirstScoreOfItem(u, i) ELSE ScoreOfItem(u, i)

\* the data set of the concrete scenario: A=(x,y), B=(x,z), C=(y,z)
IsFixture ==
    /\ PyLen(users) = Fixture.nu
    /\ PyLen(items) = Fixture.ni
    /\ train_set = ReadTrain(Fixture)

(***************************************************************************)
(* C1: after predict() under either strategy, every ranking entry          *)
(* (u, i, score) has M[u][i] == 0: no user is recommended an item that     *)
(* user has already rated.                                                 *)
(***************************************************************************)
C1_NoKnownItem ==
    Loaded =>
        \A p \in 1..Len(ranking) :
            matrix[EntryUser(ranking[p])][EntryItem(ranking[p])] = 0

\* both strategies have ranked users who rated some items and not others
C1_Witness ==
    /\ pc = "done"
    /\ \E u, v \in UserIds :
          /\ u # v
          /\ EntriesOf(u) # {} /\ EntriesOf(v) # {}
          /\ Candidates(u) # Candidates(v)

(***************************************************************************)
(* C2: for every user u the number of ranking entries of u is at most      *)
(* min(rank_length, |candidates(u)|), under both strategies.               *)
(***************************************************************************)
C2_LengthBound ==
    Loaded =>
        \A u \in UserIds :
            Cardinality(EntriesOf(u)) <= Min(rank_length, Cardinality(Candidates(u)))

\* one user's candidates were cut to rank_length, another user's all fitted
C2_Witness ==
    /\ pc = "done"
    /\ \E u, v \in UserIds :
          /\ Cardinality(Candidates(u)) > rank_length
          /\ Cardinality(EntriesOf(u)) = rank_length
          /\ Cardinality(Candidates(v)) < Cardinality(Candidates(u))
          /\ Cardinality(EntriesOf(v)) = Cardinality(Candidates(v))
          /\ EntriesOf(v) # {}

(***************************************************************************)
(* C3: within a user's entries the scores are non-increasing, entries of   *)
(* equal score are in ascending item index, and the entries kept are the   *)
(* first rank_length of that order: every candidate left out comes after   *)
(* every entry kept.                                                       *)
(***************************************************************************)
C3_DescendingStable ==
    pc = "done" =>
        /\ \A p, q \in 1..Len(ranking) :
              (p < q /\ ranking[p][1] = ranking[q][1]) =>
                  \/ ranking[p][3] > ranking[q][3]
                  \/ /\ ranking[p][3] = ranking[q][3]
                     /\ EntryItem(ranking[p]) < EntryItem(ranking[q])
        /\ \A u \in UserIds :
              EntriesOf(u) # {} =>
                  LET kept == {EntryItem(ranking[p]) : p \in EntriesOf(u)}
                  IN  /\ \A p \in EntriesOf(u) :
                            ranking[p][3] = StrategyScore(u, EntryItem(ranking[p]))
                      /\ Cardinality(kept) = Min(rank_length, Cardinality(Candidates(u)))
                      /\ \A j \in Candidates(u) \ kept, p \in EntriesOf(u) :
                            \/ StrategyScore(u, j) < ranking[p][3]
                            \/ /\ StrategyScore(u, j) = ranking[p][3]
                               /\ j > EntryItem(ranking[p])

\* the list was cut to one entry: for one user the entry kept is the item of
\* the higher index and the higher score, for another user two candidates
\* tie and the entry kept is the item of the lower index
C3_Witness ==
    /\ pc = "done"
    /\ rank_length = 1
    /\ \E u, v \in UserIds :
          /\ Cardinality(EntriesOf(u)) = 1
          /\ Cardinality(EntriesOf(v)) = 1
          /\ \E p \in EntriesOf(u) :
                \E j \in Candidates(u) :
                    /\ j < EntryItem(ranking[p])
                    /\ StrategyScore(u, j) < ranking[p][3]
          /\ \E p \in EntriesOf(v) :
                \E j \in Candidates(v) :
                    /\ j > EntryItem(ranking[p])
                    /\ StrategyScore(v, j) = ranking[p][3]
                    /\ ranking[p][3] > 0

(***************************************************************************)
(* C4: the ranking is the concatenation, in ascending user index, of the   *)
(* per-user lists of exactly the users with nonempty training feedback:    *)
(* a user's entries are contiguous, groups are in ascending user index,    *)
(* and a user without training feedback has no entry.                      *)
(***************************************************************************)
C4_GroupedByUser ==
    Loaded =>
        /\ \A p, q \in 1..Len(ranking) :
              p < q => EntryUser(ranking[p]) <= EntryUser(ranking[q])
        /\ \A u \in UserIds :
              /\ ~Trained(u) => EntriesOf(u) = {}
              /\ (pc = "predict" /\ u >= u_id) => EntriesOf(u) = {}
              /\ (Trained(u) /\ (pc = "done" \/ u < u_id)) =>
                    Cardinality(EntriesOf(u)) =
                        Min(rank_length, Cardinality(Candidates(u)))

\* a user without feedback sits between two users that both have entries
C4_Witness ==
    /\ pc = "done"
    /\ \E u, v, w \in UserIds :
          /\ u < v /\ v < w
          /\ ~Trained(v)
          /\ EntriesOf(u) # {} /\ EntriesOf(w) # {}

(***************************************************************************)
(* C5: a configuration with rank_length <= 0 or k_neighbors < 0 is         *)
(* reported as an error before any prediction begins, so no ranking entry  *)
(* is ever produced for it.                                                *)
(***************************************************************************)
C5_BadConfigRejected ==
    (rank_length <= 0 \/ (k_neighbors # <<>> /\ k_neighbors[1] < 0)) =>
        ranking = <<>>

C7_PredictFrame ==
    [][pc = "predict" =>
          /\ UNCHANGED <<matrix, su_matrix, users_id_viewed_item, k_neighbors, rank_length>>
          /\ UNCHANGED <<users, items, train_set, as_similar_first>>
          /\ Len(ranking') >= Len(ranking)
          /\ SubSeq(ranking', 1, Len(ranking)) = ranking]_vars

\* a second user's entries have been appended behind a first user's
C7_Witness ==
    /\ pc = "predict"
    /\ \E p \in 1..Len(ranking) - 1 :
          /\ ranking[p][1] # ranking[p + 1][1]
          /\ EntryUser(ranking[p + 1]) = u_id - 1

(***************************************************************************)
(* C8: under the neighbor-first strategy, for every user u whose SU row    *)
(* is symmetric with a dominating diagonal, position 0 of the users sorted *)
(* by descending SU[u][.] is u itself, so N(u) = positions [1, k) is the   *)
(* k-1 most similar users other than u and never contains u; a candidate's *)
(* score is the sum of SU[u][v] over N(u) /\ raters(i).  Read for          *)
(* k_neighbors >= 0, of the users predict() has scored.                    *)
(***************************************************************************)
RowInvariant(u) ==
    \A v \in UserIds :
        /\ su_matrix[u][v] = su_matrix[v][u]
        /\ su_matrix[u][u] >= su_matrix[u][v]

NeighborSet(u) == {NeighborSlice(u)[p] : p \in 1..Len(NeighborSlice(u))}

C8_SelfAtPositionZero ==
    (Loaded /\ as_similar_first /\ K >= 0) =>
        \A u \in UserIds :
            (Scored(u) /\ RowInvariant(u)) =>
                /\ Neighbors(u)[1] = u
                /\ u \notin NeighborSet(u)
                /\ Cardinality(NeighborSet(u)) = Min(Max(K - 1, 0), PyLen(users) - 1)
                /\ \A v \in NeighborSet(u), w \in UserIds \ (NeighborSet(u) \cup {u}) :
                      su_matrix[u][v] >= su_matrix[u][w]
                /\ \A p \in EntriesOf(u) :
                      ranking[p][3] =
                          SimSumOver(u, NeighborSet(u) \cap RatersOf(EntryItem(ranking[p])))

(***************************************************************************)
(* C9: under predict_scores, for every user u and candidate i the score is *)
(* the sum of the k_neighbors largest values of { SU[u][v] : v in          *)
(* raters(i) }: all of them when there are fewer than k_neighbors, 0 when  *)
(* there are none.  k_neighbors is a count here: the statement is about    *)
(* k_neighbors >= 0 (a negative k_neighbors is the subject of C5).         *)
(***************************************************************************)
\* the largest sum of SU[u][v] over n of the raters of i, n the smaller of k
\* and the number of raters
TopKSum(u, i, k) ==
    LET n == Min(Max(k, 0), Cardinality(RatersOf(i)))
        sums == {SimSumOver(u, S) : S \in {T \in SUBSET RatersOf(i) : Cardinality(T) = n}}
    IN  CHOOSE m \in sums : \A x \in sums : m >= x

NonNegativeSU == \A a, b \in UserIds : su_matrix[a][b] >= 0

====
